---- MODULE Spec2Model ----
(***************************************************************************)
(* Model of pull_oracle_n_upload_to_fabric/run_all.py: the module-level    *)
(* setup, main's batch loop over tables_to_process, process_table's stages *)
(* and upload_file_to_datalake.                                            *)
(*                                                                         *)
(* Text is modelled as a sequence of tokens: an identifier such as         *)
(* sales.orders is <<"sales", ".", "orders">>, and a generated query is    *)
(* the sequence of its literal pieces and the names spliced into them.     *)
(* A simple configuration value is a string, "" standing for a value that  *)
(* is missing (None) or empty: the code tests these values for truthiness  *)
(* only.  A call to the driver, pandas, the file system or the Azure SDK   *)
(* is a nondeterministic choice among the outcomes the library can give.   *)
(***************************************************************************)
EXTENDS Integers, Sequences, FiniteSets, TLC

\* Longest tables_to_process list.
MaxTables == 2
\* Most columns the catalog reports for one table.
MaxCols == 2

\* None where the code holds a string or a list: tested with `not x` only.
None == <<>>

---------------------------------------------------------------------------
\* str.upper(), token by token.
UpperToken(t) ==
    CASE t = "sales" -> "SALES"
      [] t = "orders" -> "ORDERS"
      [] t = "hr" -> "HR"
      [] t = "analytics" -> "ANALYTICS"
      [] OTHER -> t

Upper(s) == [i \in 1..Len(s) |-> UpperToken(s[i])]

\* '.' in s
HasDot(s) == \E i \in 1..Len(s) : s[i] = "."

FirstDot(s) == CHOOSE i \in 1..Len(s) : s[i] = "." /\ \A j \in 1..(i - 1) : s[j] /= "."

\* s.rsplit('.', 1): a split at the last '.' instead of the first.
LastDot(s) == CHOOSE i \in 1..Len(s) : s[i] = "." /\ \A j \in (i + 1)..Len(s) : s[j] /= "."

SplitAtLastDot(s) == <<SubSeq(s, 1, LastDot(s) - 1), SubSeq(s, LastDot(s) + 1, Len(s))>>

\* s.split('.', 1) for an s that holds a '.': <<before the first '.', the rest>>.
SplitOwner(s) == <<SubSeq(s, 1, FirstDot(s) - 1), SubSeq(s, FirstDot(s) + 1, Len(s))>>

\* str() of the numbers the configuration gives for the cast.
Str(n) ==
    CASE n = 0 -> "0"
      [] n = 2 -> "2"
      [] n = 10 -> "10"
      [] n = 22 -> "22"

\* sep.join(parts) for parts that are token sequences.
RECURSIVE Join(_, _)
Join(parts, sep) ==
    IF parts = <<>> THEN <<>>
    ELSE IF Len(parts) = 1 THEN parts[1]
    ELSE parts[1] \o <<sep>> \o Join(Tail(parts), sep)

---------------------------------------------------------------------------
\* Query builder.

\* A cast item without its alias.
SelectClauseNoAlias(c, dt, precision, scale) ==
    IF dt = "NUMBER"
    THEN <<"CAST(\"", c, "\" AS NUMBER(", Str(precision), ",", Str(scale), "))">>
    ELSE <<"\"", c, "\"">>

\* One item of select_clauses.
SelectClause(c, dt, precision, scale) ==
    IF dt = "NUMBER"
    THEN <<"CAST(\"", c, "\" AS NUMBER(", Str(precision), ",", Str(scale), ")) AS \"", c, "\"">>
    ELSE <<"\"", c, "\"">>

generate_select_query(owner_name, table_name_only, column_metadata, precision, scale) ==
    IF column_metadata = <<>> THEN None
    ELSE LET select_clauses ==
                 [i \in 1..Len(column_metadata) |->
                     SelectClause(column_metadata[i][1], column_metadata[i][2],
                                  precision, scale)]
         IN  <<"SELECT\n  ">> \o Join(select_clauses, ",\n  ")
                 \o <<"\nFROM \"">> \o Upper(owner_name)
                 \o <<"\".\"">> \o Upper(table_name_only) \o <<"\"">>

---------------------------------------------------------------------------
\* Configuration and environment.

\* The credentials check without ORACLE_DB_DSN.
DbCredentialsPresentNoDsn(e) ==
    e.ORACLE_DB_USER /= "" /\ e.ORACLE_DB_PASSWORD /= ""

\* all([DB_USER, DB_PASSWORD, DB_DSN])
DbCredentialsPresent(e) ==
    e.ORACLE_DB_USER /= "" /\ e.ORACLE_DB_PASSWORD /= "" /\ e.ORACLE_DB_DSN /= ""

\* The completeness check without FABRIC_CLIENT_SECRET.
FabricConfigCompleteNoSecret(f) ==
    /\ f.FABRIC_TENANT_ID /= ""
    /\ f.FABRIC_CLIENT_ID /= ""
    /\ f.workspace_id /= ""
    /\ f.lakehouse_id /= ""

\* all([FABRIC_TENANT_ID, FABRIC_CLIENT_ID, FABRIC_CLIENT_SECRET,
\*      FABRIC_WORKSPACE_ID, FABRIC_LAKEHOUSE_ID])
FABRIC_CONFIG_COMPLETE(f) ==
    /\ f.FABRIC_TENANT_ID /= ""
    /\ f.FABRIC_CLIENT_ID /= ""
    /\ f.FABRIC_CLIENT_SECRET /= ""
    /\ f.workspace_id /= ""
    /\ f.lakehouse_id /= ""

\* The per-table check without lakehouse_dest_file_name.
TableFieldsPresentNoFile(t) ==
    /\ t.oracle_table_name /= <<>>
    /\ t.local_file_name /= ""
    /\ t.lakehouse_dest_folder_path /= ""

\* all([oracle_table_name, local_file_name, lakehouse_folder, lakehouse_file])
TableFieldsPresent(t) ==
    /\ t.oracle_table_name /= <<>>
    /\ t.local_file_name /= ""
    /\ t.lakehouse_dest_folder_path /= ""
    /\ t.lakehouse_dest_file_name /= ""

FullEntry(name) ==
    [oracle_table_name |-> name, local_file_name |-> "t.parquet",
     lakehouse_dest_folder_path |-> "raw", lakehouse_dest_file_name |-> "t.parquet"]

\* The entries a tables_to_process list is drawn from: complete ones, with and
\* without an owner prefix, and one with each of the four fields missing.
TableEntries ==
    { FullEntry(<<"sales", ".", "orders">>),
      FullEntry(<<"orders">>),
      FullEntry(<<"hr", ".", "sales", ".", "orders">>),
      [FullEntry(<<"orders">>) EXCEPT !.oracle_table_name = <<>>],
      [FullEntry(<<"orders">>) EXCEPT !.local_file_name = ""],
      [FullEntry(<<"orders">>) EXCEPT !.lakehouse_dest_folder_path = ""],
      [FullEntry(<<"orders">>) EXCEPT !.lakehouse_dest_file_name = ""] }

TableLists == UNION { [1..n -> TableEntries] : n \in 0..MaxTables }

AllSet == [ORACLE_DB_USER |-> "scott", ORACLE_DB_PASSWORD |-> "tiger", ORACLE_DB_DSN |-> "db"]

\* All three database credentials set, or exactly one of them missing.
DbEnvironments ==
    { AllSet,
      [AllSet EXCEPT !.ORACLE_DB_USER = ""],
      [AllSet EXCEPT !.ORACLE_DB_PASSWORD = ""],
      [AllSet EXCEPT !.ORACLE_DB_DSN = ""] }

FabricSet ==
    [FABRIC_TENANT_ID |-> "tenant", FABRIC_CLIENT_ID |-> "client",
     FABRIC_CLIENT_SECRET |-> "secret", workspace_id |-> "ws", lakehouse_id |-> "lh"]

FabricUnset ==
    [FABRIC_TENANT_ID |-> "", FABRIC_CLIENT_ID |-> "",
     FABRIC_CLIENT_SECRET |-> "", workspace_id |-> "", lakehouse_id |-> ""]

\* All five destination fields set, exactly one of them missing, or none set.
FabricSettings ==
    { FabricSet, FabricUnset,
      [FabricSet EXCEPT !.FABRIC_TENANT_ID = ""],
      [FabricSet EXCEPT !.FABRIC_CLIENT_ID = ""],
      [FabricSet EXCEPT !.FABRIC_CLIENT_SECRET = ""],
      [FabricSet EXCEPT !.workspace_id = ""],
      [FabricSet EXCEPT !.lakehouse_id = ""] }

\* (cast_number_to_precision, cast_number_to_scale): the defaults, and one other.
CastSettings == { <<22, 0>>, <<10, 2>> }

\* What ALL_TAB_COLUMNS can report for one table: (COLUMN_NAME, DATA_TYPE) rows
\* in COLUMN_ID order, no two columns of a table sharing a name.
ColumnRows ==
    { <<"ID", "VARCHAR2">>, <<"AMOUNT", "NUMBER">>, <<"STATUS", "VARCHAR2">> }
ColumnLists ==
    UNION { { m \in [1..n -> ColumnRows] :
                \A i, j \in 1..n : i /= j => m[i][1] /= m[j][1] } : n \in 0..MaxCols }

\* SYS_CONTEXT('USERENV', 'CURRENT_SCHEMA'), as fetchone() returns it.
SchemaAnswers ==
    { [kind |-> "DatabaseError", value |-> <<>>],
      [kind |-> "Error", value |-> <<>>],
      [kind |-> "no_row", value |-> <<>>],
      [kind |-> "null", value |-> <<>>],
      [kind |-> "row", value |-> <<"ANALYTICS">>],
      [kind |-> "row", value |-> <<"analytics">>] }

---------------------------------------------------------------------------
VARIABLES
    pc,                  \* where the script is
    env,                 \* ORACLE_DB_USER, ORACLE_DB_PASSWORD, ORACLE_DB_DSN
    fabric,              \* the five destination fields
    TABLES_CONFIG_LIST,  \* processing_settings.tables_to_process
    cast,                \* <<CAST_PRECISION, CAST_SCALE>>
    conn,                \* "none", "open" or "closed"
    idx,                 \* position of table_config in TABLES_CONFIG_LIST
    owner_name_std,
    table_name_only_std,
    column_metadata,
    select_query,
    local_parquet_path,
    raised,              \* an exception is propagating out of the table loop
    setup_error,         \* which setup step failed, "" for none
    calls,               \* what was done for the current table_config
    conn_calls,          \* connect() and close() calls of the run
    outcome              \* how each table_config met so far ended

vars == <<pc, env, fabric, TABLES_CONFIG_LIST, cast, conn, idx, owner_name_std,
          table_name_only_std, column_metadata, select_query, local_parquet_path,
          raised, setup_error, calls, conn_calls, outcome>>

config == <<env, fabric, TABLES_CONFIG_LIST, cast>>
locals == <<owner_name_std, table_name_only_std, column_metadata, select_query,
            local_parquet_path>>

NoCalls ==
    [schema_queries |-> 0, schema_answer |-> "", schema_value |-> <<>>,
     metadata_owner |-> <<>>, metadata_queries |-> 0, columns |-> 0,
     query_built |-> FALSE,
     data_queries |-> 0, fetched |-> FALSE, written |-> FALSE, uploads |-> 0]

Init ==
    /\ pc = "load_config"
    /\ env \in DbEnvironments
    /\ fabric \in FabricSettings
    /\ TABLES_CONFIG_LIST \in TableLists
    /\ cast \in CastSettings
    /\ conn = "none"
    /\ idx = 0
    /\ owner_name_std = None
    /\ table_name_only_std = None
    /\ column_metadata = <<>>
    /\ select_query = None
    /\ local_parquet_path = None
    /\ raised = FALSE
    /\ setup_error = ""
    /\ calls = NoCalls
    /\ conn_calls = [connect |-> 0, close |-> 0]
    /\ outcome = <<>>

---------------------------------------------------------------------------
\* Module-level setup.

\* APP_CONFIG = load_yaml_config(); exit() when it is None.
LoadConfig ==
    /\ pc = "load_config"
    /\ \E loaded \in BOOLEAN :
          IF loaded
          THEN pc' = "init_oracle_client" /\ setup_error' = setup_error
          ELSE pc' = "exited" /\ setup_error' = "config"
    /\ UNCHANGED <<config, conn, idx, locals, raised, calls, conn_calls, outcome>>

\* oracledb.init_oracle_client(...); exit() on any exception.
InitOracleClient ==
    /\ pc = "init_oracle_client"
    /\ \E initialized \in BOOLEAN :
          IF initialized
          THEN pc' = "validate" /\ setup_error' = setup_error
          ELSE pc' = "exited" /\ setup_error' = "client"
    /\ UNCHANGED <<config, conn, idx, locals, raised, calls, conn_calls, outcome>>

\* exit() unless the three database credentials are set; incomplete Fabric
\* settings and an empty table list are only warned about.
ValidateConfiguration ==
    /\ pc = "validate"
    /\ IF DbCredentialsPresent(env)
       THEN pc' = "connect" /\ setup_error' = setup_error
       ELSE pc' = "exited" /\ setup_error' = "credentials"
    /\ UNCHANGED <<config, conn, idx, locals, raised, calls, conn_calls, outcome>>

---------------------------------------------------------------------------
\* main

\* conn = get_oracle_connection(...): a DatabaseError is turned into None and
\* main goes to its last line; any other exception leaves main.
Connect ==
    /\ pc = "connect"
    /\ conn_calls' = [conn_calls EXCEPT !.connect = @ + 1]
    /\ \E result \in {"connected", "DatabaseError", "Error"} :
          CASE result = "connected" ->
                 conn' = "open" /\ pc' = "next_table" /\ setup_error' = setup_error
            [] result = "DatabaseError" ->
                 conn' = conn /\ pc' = "done" /\ setup_error' = "connect"
            [] result = "Error" ->
                 conn' = conn /\ pc' = "crashed" /\ setup_error' = "connect"
    /\ UNCHANGED <<config, idx, locals, raised, calls, outcome>>

\* The for loop takes the next table_config; one with a missing field is
\* skipped with a warning.
NextTable ==
    /\ pc = "next_table"
    /\ idx < Len(TABLES_CONFIG_LIST)
    /\ idx' = idx + 1
    /\ calls' = NoCalls
    /\ owner_name_std' = None
    /\ table_name_only_std' = None
    /\ column_metadata' = <<>>
    /\ select_query' = None
    /\ local_parquet_path' = None
    /\ IF TableFieldsPresent(TABLES_CONFIG_LIST[idx + 1])
       THEN pc' = "resolve_owner" /\ outcome' = outcome
       ELSE pc' = "next_table" /\ outcome' = Append(outcome, "SKIPPED")
    /\ UNCHANGED <<config, conn, raised, setup_error, conn_calls>>

\* The list is empty or exhausted: the try block ends.
EndOfTables ==
    /\ pc = "next_table"
    /\ idx = Len(TABLES_CONFIG_LIST)
    /\ pc' = "finally"
    /\ UNCHANGED <<config, conn, idx, locals, raised, setup_error, calls, conn_calls,
                   outcome>>

\* A finally block that leaves the connection open.
FinallyWithoutClose ==
    /\ pc = "finally"
    /\ pc' = IF raised THEN "crashed" ELSE "done"
    /\ UNCHANGED <<config, conn, idx, locals, raised, setup_error, calls, conn_calls,
                   outcome>>

\* finally: conn.close(); then the last line of main, or the exception goes on.
Finally ==
    /\ pc = "finally"
    /\ conn' = "closed"
    /\ conn_calls' = [conn_calls EXCEPT !.close = @ + 1]
    /\ pc' = IF raised THEN "crashed" ELSE "done"
    /\ UNCHANGED <<config, idx, locals, raised, setup_error, calls, outcome>>

---------------------------------------------------------------------------
\* process_table

\* The owner part of the identifier, or the session schema when it has none.
OwnerName(oracle_table_full_name, fetched_owner) ==
    IF HasDot(oracle_table_full_name) THEN SplitOwner(oracle_table_full_name)[1]
    ELSE fetched_owner

TableNameOnly(oracle_table_full_name) ==
    IF HasDot(oracle_table_full_name) THEN SplitOwner(oracle_table_full_name)[2]
    ELSE oracle_table_full_name

\* The locals of process_table, gone when it returns or an exception leaves it.
FrameDropped ==
    /\ owner_name_std' = None
    /\ table_name_only_std' = None
    /\ column_metadata' = <<>>
    /\ select_query' = None

\* return None
ReturnNone ==
    /\ FrameDropped
    /\ local_parquet_path' = None
    /\ pc' = "upload_decision"
    /\ raised' = raised

\* An exception nothing in process_table or main catches.
Raise ==
    /\ FrameDropped
    /\ local_parquet_path' = local_parquet_path
    /\ pc' = "finally"
    /\ raised' = TRUE

\* process_table goes on to its next stage.
GoOn(stage) ==
    /\ pc' = stage
    /\ local_parquet_path' = local_parquet_path
    /\ raised' = raised

\* owner_name, table_name_only and their upper-cased forms.
ResolveOwner ==
    /\ pc = "resolve_owner"
    /\ LET name == TABLES_CONFIG_LIST[idx].oracle_table_name IN
       IF HasDot(name)
       THEN /\ owner_name_std' = Upper(OwnerName(name, None))
            /\ table_name_only_std' = Upper(TableNameOnly(name))
            /\ UNCHANGED <<column_metadata, select_query, calls>>
            /\ GoOn("fetch_metadata")
       ELSE \E fetched \in SchemaAnswers :
            /\ calls' = [calls EXCEPT !.schema_queries = @ + 1,
                                      !.schema_answer = fetched.kind,
                                      !.schema_value = fetched.value]
            /\ CASE fetched.kind = "row" ->
                      /\ owner_name_std' = Upper(OwnerName(name, fetched.value))
                      /\ table_name_only_std' = Upper(TableNameOnly(name))
                      /\ UNCHANGED <<column_metadata, select_query>>
                      /\ GoOn("fetch_metadata")
                 [] fetched.kind \in {"no_row", "DatabaseError"} -> ReturnNone
                 \* fetched_owner[0] is None: None.upper() raises AttributeError;
                 \* an exception that is no DatabaseError is not caught either.
                 [] fetched.kind \in {"null", "Error"} -> Raise
    /\ UNCHANGED <<config, conn, idx, setup_error, conn_calls, outcome>>

\* column_metadata = get_table_column_metadata(...): a DatabaseError gives [],
\* and process_table returns None on an empty list.
FetchMetadata ==
    /\ pc = "fetch_metadata"
    /\ \/ \E rows \in ColumnLists :
             /\ calls' = [calls EXCEPT !.metadata_queries = @ + 1,
                                       !.metadata_owner = Upper(owner_name_std),
                                       !.columns = Len(rows)]
             /\ IF rows = <<>>
                THEN ReturnNone
                ELSE /\ column_metadata' = rows
                     /\ UNCHANGED <<owner_name_std, table_name_only_std, select_query>>
                     /\ GoOn("build_query")
       \/ \E error \in {"DatabaseError", "Error"} :
             /\ calls' = [calls EXCEPT !.metadata_queries = @ + 1,
                                       !.metadata_owner = Upper(owner_name_std)]
             /\ IF error = "DatabaseError" THEN ReturnNone ELSE Raise
    /\ UNCHANGED <<config, conn, idx, setup_error, conn_calls, outcome>>

\* select_query = generate_select_query(...); return None when it is None.
BuildQuery ==
    /\ pc = "build_query"
    /\ LET query == generate_select_query(owner_name_std, table_name_only_std,
                                          column_metadata, cast[1], cast[2])
       IN  /\ calls' = [calls EXCEPT !.query_built = (query /= None)]
           /\ IF query = None
              THEN ReturnNone
              ELSE /\ select_query' = query
                   /\ UNCHANGED <<owner_name_std, table_name_only_std, column_metadata>>
                   /\ GoOn("execute_query")
    /\ UNCHANGED <<config, conn, idx, setup_error, conn_calls, outcome>>

\* df = pd.read_sql_query(select_query, connection); every exception is caught
\* and process_table returns None.
ExecuteQuery ==
    /\ pc = "execute_query"
    /\ \E fetched \in BOOLEAN :
          /\ calls' = [calls EXCEPT !.data_queries = @ + 1, !.fetched = fetched]
          /\ IF fetched
             THEN /\ UNCHANGED <<owner_name_std, table_name_only_std, column_metadata,
                                 select_query>>
                  /\ GoOn("write_local")
             ELSE ReturnNone
    /\ UNCHANGED <<config, conn, idx, setup_error, conn_calls, outcome>>

\* os.makedirs, os.path.join and df.to_parquet, then return the path; every
\* exception is caught and process_table returns None.
WriteLocal ==
    /\ pc = "write_local"
    /\ \E saved \in BOOLEAN :
          /\ calls' = [calls EXCEPT !.written = saved]
          /\ IF saved
             THEN /\ FrameDropped
                  /\ local_parquet_path' =
                        <<"parquet_output", "/", TABLES_CONFIG_LIST[idx].local_file_name>>
                  /\ pc' = "upload_decision"
                  /\ raised' = raised
             ELSE ReturnNone
    /\ UNCHANGED <<config, conn, idx, setup_error, conn_calls, outcome>>

---------------------------------------------------------------------------
\* main, after process_table, and upload_file_to_datalake

\* The upload condition without the test of local_parquet_path.
UploadWantedWithoutPath(path, f) == FABRIC_CONFIG_COMPLETE(f)

\* local_parquet_path and FABRIC_CONFIG_COMPLETE
UploadWanted(path, f) == path /= None /\ FABRIC_CONFIG_COMPLETE(f)

\* The if / elif / else after process_table.
UploadDecision ==
    /\ pc = "upload_decision"
    /\ IF UploadWanted(local_parquet_path, fabric)
       THEN pc' = "upload" /\ outcome' = outcome
       ELSE IF local_parquet_path /= None
       THEN pc' = "next_table" /\ outcome' = Append(outcome, "UPLOAD_SKIPPED")
       ELSE pc' = "next_table" /\ outcome' = Append(outcome, "FAILED")
    /\ UNCHANGED <<config, conn, idx, locals, raised, setup_error, calls, conn_calls>>

\* upload_file_to_datalake: the two imports are outside its try block, so a
\* failing import leaves the function; everything after them is caught.
Upload ==
    /\ pc = "upload"
    /\ calls' = [calls EXCEPT !.uploads = @ + 1]
    /\ \E result \in {"uploaded", "Exception", "ImportError"} :
          CASE result = "uploaded" ->
                 /\ outcome' = Append(outcome, "UPLOADED")
                 /\ pc' = "next_table"
                 /\ raised' = raised
            [] result = "Exception" ->
                 /\ outcome' = Append(outcome, "UPLOAD_FAILED")
                 /\ pc' = "next_table"
                 /\ raised' = raised
            [] result = "ImportError" ->
                 /\ outcome' = outcome
                 /\ pc' = "finally"
                 /\ raised' = TRUE
    /\ UNCHANGED <<config, conn, idx, locals, setup_error, conn_calls>>

---------------------------------------------------------------------------
Next ==
    \/ LoadConfig
    \/ InitOracleClient
    \/ ValidateConfiguration
    \/ Connect
    \/ NextTable
    \/ EndOfTables
    \/ ResolveOwner
    \/ FetchMetadata
    \/ BuildQuery
    \/ ExecuteQuery
    \/ WriteLocal
    \/ UploadDecision
    \/ Upload
    \/ Finally

Spec == Init /\ [][Next]_vars

---------------------------------------------------------------------------
\* Vocabulary of the properties, stated without the operators of the model.

DestinationFields ==
    {"FABRIC_TENANT_ID", "FABRIC_CLIENT_ID", "FABRIC_CLIENT_SECRET", "workspace_id",
     "lakehouse_id"}

AllFiveDestinationFieldsSet == \A k \in DestinationFields : fabric[k] /= ""

AllFourTableFieldsSet(t) ==
    /\ t.oracle_table_name /= <<>>
    /\ \A k \in {"local_file_name", "lakehouse_dest_folder_path",
                 "lakehouse_dest_file_name"} : t[k] /= ""

AllThreeCredentialsSet ==
    \A k \in {"ORACLE_DB_USER", "ORACLE_DB_PASSWORD", "ORACLE_DB_DSN"} : env[k] /= ""

\* The script has stopped: exit(), the last line of main, or an exception.
Ended == pc \in {"exited", "done", "crashed"}

\* The current table_config has got its outcome.
CurrentTableEnded == idx >= 1 /\ Len(outcome) = idx

CurrentName == TABLES_CONFIG_LIST[idx].oracle_table_name

RECURSIVE BeforeFirstDot(_)
BeforeFirstDot(s) ==
    IF s = <<>> \/ Head(s) = "." THEN <<>> ELSE <<Head(s)>> \o BeforeFirstDot(Tail(s))

RECURSIVE BeforeSep(_, _)
\* The tokens of s before the first occurrence of token sep.
BeforeSep(s, sep) ==
    IF s = <<>> \/ Head(s) = sep THEN <<>> ELSE <<Head(s)>> \o BeforeSep(Tail(s), sep)

RECURSIVE SplitOn(_, _)
\* The pieces of token sequence s between the occurrences of token sep.
SplitOn(s, sep) ==
    LET first == BeforeSep(s, sep)
    IN  IF Len(first) = Len(s) THEN <<first>>
        ELSE <<first>> \o SplitOn(SubSeq(s, Len(first) + 2, Len(s)), sep)

\* The FROM clause of a query starts at this token.
FromIndex(q) == CHOOSE i \in 1..Len(q) : q[i] = "\nFROM \""

\* The items of the select list of a query.
SelectItems(q) == SplitOn(SubSeq(q, 2, FromIndex(q) - 1), ",\n  ")

\* The owner and the table a query's FROM clause names, between the quotes.
FromOwner(q) == BeforeSep(SubSeq(q, FromIndex(q) + 1, Len(q)), "\".\"")

FromTable(q) ==
    SubSeq(q, FromIndex(q) + Len(FromOwner(q)) + 2, Len(q) - 1)

---------------------------------------------------------------------------
\* C1: for a table whose local file was written, the upload is attempted if
\* and only if all five destination fields are non-empty; when one is empty
\* no upload is attempted for any table of the run and a table whose file was
\* written ends with its upload skipped.
C1_UploadIffDestinationComplete ==
    /\ (calls.written /\ pc /= "upload_decision")
          => (AllFiveDestinationFieldsSet <=> (pc = "upload" \/ calls.uploads = 1))
    /\ ~AllFiveDestinationFieldsSet
          => /\ calls.uploads = 0
             /\ pc /= "upload"
             /\ \A i \in 1..Len(outcome) : outcome[i] \notin {"UPLOADED", "UPLOAD_FAILED"}
             /\ (calls.written /\ pc /= "upload_decision")
                   => (CurrentTableEnded /\ outcome[idx] = "UPLOAD_SKIPPED")

\* Only the client secret is missing: the file is written and the upload skipped.
C1_Witness ==
    /\ fabric = [FabricSet EXCEPT !.FABRIC_CLIENT_SECRET = ""]
    /\ calls.written
    /\ calls.uploads = 0
    /\ CurrentTableEnded
    /\ outcome[idx] = "UPLOAD_SKIPPED"

\* C2: a failure of a table in metadata retrieval, query generation, query
\* execution or local write ends only that table: no exception leaves the
\* table loop, and when the run is over every entry has been attempted.
C2_PerTableFailuresIsolated ==
    (calls.metadata_queries > 0 /\ calls.uploads = 0)
       => /\ ~raised
          /\ Ended => Len(outcome) = Len(TABLES_CONFIG_LIST)

\* C3: a failure inside the upload step, loading the storage client included,
\* is caught in upload_file_to_datalake: no exception leaves the table loop.
C3_UploadFailureCaught ==
    calls.uploads > 0
       => /\ ~raised
          /\ Ended => Len(outcome) = Len(TABLES_CONFIG_LIST)

\* C4: at most one connection is opened; it is open at every step of the table
\* loop, so every query is issued on an open connection; it is closed exactly
\* once when the loop ends, normally or by an exception, and nothing runs after.
C4_ConnectionClosedExactlyOnce ==
    /\ conn_calls.connect <= 1
    /\ conn_calls.close <= 1
    /\ conn /= "none" => conn_calls.connect = 1
    /\ pc \in {"next_table", "resolve_owner", "fetch_metadata", "build_query",
               "execute_query", "write_local", "upload_decision", "upload", "finally"}
          => (conn = "open" /\ conn_calls.close = 0)
    /\ conn = "closed" => (Ended /\ conn_calls.close = 1)
    /\ (Ended /\ conn /= "none") => (conn = "closed" /\ conn_calls.close = 1)

\* An exception left the loop of a list with two entries: the connection is closed.
C4_Witness ==
    /\ pc = "crashed"
    /\ raised
    /\ conn = "closed"
    /\ conn_calls = [connect |-> 1, close |-> 1]
    /\ idx = 1
    /\ Len(TABLES_CONFIG_LIST) = 2

\* C5: when a database credential is missing, the client cannot be initialized
\* or the connection fails, the run ends with no table touched: no query, no
\* entry processed, no local file, no upload.
C5_SetupErrorTouchesNoTable ==
    /\ (setup_error /= "" \/ ~AllThreeCredentialsSet)
          => /\ idx = 0
             /\ outcome = <<>>
             /\ calls = NoCalls
             /\ conn = "none"
             /\ pc \in {"load_config", "init_oracle_client", "validate", "exited",
                        "done", "crashed"}
    /\ setup_error /= "" => Ended

\* The connection fails with tables configured.
C5_Witness ==
    /\ pc = "done"
    /\ setup_error = "connect"
    /\ Len(TABLES_CONFIG_LIST) = 2
    /\ outcome = <<>>

\* C6: the select list has one item per column, in the order of the metadata;
\* the item of a NUMBER column is a cast to (precision, scale) aliased to the
\* column, any other is the bare quoted column; FROM names the quoted owner and
\* table.
C6_SelectListMatchesColumns ==
    select_query /= None =>
       LET items == SelectItems(select_query) IN
       /\ column_metadata /= <<>>
       /\ select_query[1] = "SELECT\n  "
       /\ Len(items) = Len(column_metadata)
       /\ \A i \in 1..Len(column_metadata) :
             LET c == column_metadata[i][1] IN
             items[i] = IF column_metadata[i][2] = "NUMBER"
                        THEN <<"CAST(\"", c, "\" AS NUMBER(", Str(cast[1]), ",",
                               Str(cast[2]), ")) AS \"", c, "\"">>
                        ELSE <<"\"", c, "\"">>
       /\ FromOwner(select_query) = owner_name_std
       /\ FromTable(select_query) = table_name_only_std
       /\ select_query[Len(select_query)] = "\""

\* A query for a plain column followed by a NUMBER column, cast to (10,2).
C6_Witness ==
    /\ select_query /= None
    /\ column_metadata = << <<"ID", "VARCHAR2">>, <<"AMOUNT", "NUMBER">> >>
    /\ cast = <<10, 2>>

\* C7 as written: the session schema is queried exactly once for an identifier
\* without '.', never for owner.name, and the value resolved (or the part before
\* the first '.') is itself the owner of the metadata lookup and of the query.
C7_OwnerIsResolvedValue ==
    (idx >= 1 /\ calls.metadata_queries > 0) =>
       LET resolved == IF HasDot(CurrentName) THEN BeforeFirstDot(CurrentName)
                       ELSE calls.schema_value
       IN  /\ calls.schema_queries = (IF HasDot(CurrentName) THEN 0 ELSE 1)
           /\ calls.metadata_owner = resolved
           /\ select_query /= None => FromOwner(select_query) = resolved

\* C7 as amended: the owner of the metadata lookup and of the query is the
\* upper-cased form of the value resolved (or of the part before the first '.').
C7_OwnerIsUpperCasedResolvedValue ==
    /\ (idx >= 1 /\ pc \in {"fetch_metadata", "build_query", "execute_query", "write_local"})
          => calls.schema_queries = (IF HasDot(CurrentName) THEN 0 ELSE 1)
    /\ (idx >= 1 /\ calls.metadata_queries > 0) =>
          LET resolved == IF HasDot(CurrentName) THEN BeforeFirstDot(CurrentName)
                          ELSE calls.schema_value
          IN  /\ calls.schema_queries = (IF HasDot(CurrentName) THEN 0 ELSE 1)
              /\ calls.metadata_owner = Upper(resolved)
              /\ select_query /= None => FromOwner(select_query) = Upper(resolved)

\* The session schema analytics, resolved once, is the owner ANALYTICS of both.
C7_Witness ==
    /\ idx >= 1
    /\ ~HasDot(CurrentName)
    /\ calls.schema_queries = 1
    /\ calls.schema_value = <<"analytics">>
    /\ calls.metadata_owner = <<"ANALYTICS">>
    /\ select_query /= None
    /\ FromOwner(select_query) = <<"ANALYTICS">>

\* C8: an entry with one of its four fields missing is skipped: nothing is
\* queried, written or uploaded for it and the loop goes on; an entry with all
\* four is never skipped.
C8_IncompleteEntrySkipped ==
    /\ \A i \in 1..Len(outcome) :
          outcome[i] = "SKIPPED" <=> ~AllFourTableFieldsSet(TABLES_CONFIG_LIST[i])
    /\ (idx >= 1 /\ ~AllFourTableFieldsSet(TABLES_CONFIG_LIST[idx]))
          => /\ calls = NoCalls
             /\ CurrentTableEnded
             /\ ~raised
             /\ pc \in {"next_table", "finally", "done"}

\* An entry is skipped and the next one is processed to the end.
C8_Witness ==
    /\ Len(outcome) = 2
    /\ outcome[1] = "SKIPPED"
    /\ outcome[2] = "UPLOADED"
    /\ TABLES_CONFIG_LIST[1].lakehouse_dest_folder_path = ""

\* C9: when the session schema cannot be resolved (database error, no row, or
\* a null value) the table fails alone: no metadata or data query is issued
\* for it, no exception leaves the loop, and the batch goes on.
C9_UnresolvedSchemaFailsTableOnly ==
    (calls.schema_queries = 1 /\ calls.schema_answer \in {"DatabaseError", "no_row", "null"})
       => /\ calls.metadata_queries = 0
          /\ calls.data_queries = 0
          /\ ~raised
          /\ pc \in {"upload_decision", "next_table", "finally", "done"}
          /\ Ended => Len(outcome) = Len(TABLES_CONFIG_LIST)

\* C10: no stage runs unless the one before it succeeded for the same table:
\* metadata after the owner, the data query after non-empty metadata and a
\* built query, the local file after a successful query, the upload after the
\* local file; a table that failed before the upload is never uploaded.
C10_StagesInOrder ==
    /\ calls.schema_queries <= 1 /\ calls.metadata_queries <= 1
    /\ calls.data_queries <= 1 /\ calls.uploads <= 1
    /\ calls.metadata_queries > 0
          => (HasDot(CurrentName) \/ calls.schema_answer = "row")
    /\ calls.columns > 0 => calls.metadata_queries = 1
    /\ pc = "build_query" => (column_metadata /= <<>> /\ calls.columns = Len(column_metadata))
    /\ generate_select_query(owner_name_std, table_name_only_std, <<>>,
                             cast[1], cast[2]) = None
    /\ calls.query_built => calls.columns > 0
    /\ pc \in {"execute_query", "write_local"}
          => (calls.query_built /\ column_metadata /= <<>> /\ select_query /= None)
    /\ calls.data_queries > 0 => calls.query_built
    /\ (calls.metadata_queries = 1 /\ calls.columns = 0)
          => /\ ~calls.query_built
             /\ calls.data_queries = 0
             /\ CurrentTableEnded => outcome[idx] = "FAILED"
    /\ calls.fetched => calls.data_queries = 1
    /\ calls.written => calls.fetched
    /\ (pc = "upload" \/ calls.uploads > 0) => (calls.written /\ local_parquet_path /= None)
    /\ (CurrentTableEnded /\ outcome[idx] = "FAILED")
          => (~calls.written /\ calls.uploads = 0)
    /\ (CurrentTableEnded /\ outcome[idx] \in {"UPLOADED", "UPLOAD_FAILED"})
          => (calls.written /\ calls.uploads = 1)

\* An owner-less table goes through every stage and is uploaded.
C10_Witness ==
    /\ CurrentTableEnded
    /\ outcome[idx] = "UPLOADED"
    /\ calls.schema_queries = 1
    /\ calls.metadata_queries = 1
    /\ calls.data_queries = 1
    /\ calls.written
    /\ calls.uploads = 1

====
